---- MODULE Spec2Model ----
(***************************************************************************)
(* Model of pkg/spotify/auth.go: the OAuth2 Authorization-Code + PKCE      *)
(* login of organizify.  The caller's goroutine runs Login; every request  *)
(* accepted by the callback listener runs completeAuthHandler on its own   *)
(* goroutine.  Time is counted in minutes.  The API client of the package  *)
(* (NewClient, makeRequest and the paginated listings) is modelled next to *)
(* it.                                                                     *)
(***************************************************************************)
EXTENDS Integers, FiniteSets, Sequences, Bags, TLC

\* ---------------------------------------------------------------- bounds
MaxTime      == 5      \* the clock stops advancing here
MaxHandlers  == 2      \* completeAuthHandler goroutines in flight at once
MaxCallbacks == 2      \* requests served by one listener
MaxPages     == 3      \* page requests of one listing
PageLimit    == 2      \* items per page, standing for the listings' limit 50

\* ------------------------------------------------------ program constants
Margin       == 5      \* isTokenValid: 5 * time.Minute
LoginTimeout == 5      \* Login: time.After(5 * time.Minute)

\* ------------------------------------------ values the environment supplies
States    == {"s1", "s2"}          \* outcomes of generateRandomString(16)
Verifiers == {"v1", "v2"}          \* outcomes of generateCodeVerifier()
CbStates  == States \cup {""}      \* `state` query parameter of a callback
CbErrors  == {"", "access_denied"} \* `error` query parameter of a callback
CbCodes   == {"", "c1"}            \* `code` query parameter of a callback

\* 200 responses of the token endpoint to a code exchange
ExchangeResps ==
  [AccessToken : {"a1", "a2"}, RefreshToken : {"", "r1"}, ExpiresIn : {6}]

\* 200 responses of the token endpoint to a refresh
RefreshResps ==
  [AccessToken : {"a3"}, RefreshToken : {"", "r2"}, ExpiresIn : {5, 6}]

NoResp == [AccessToken |-> "", RefreshToken |-> "", ExpiresIn |-> 0]

\* a nil *oauth2.Token
NilToken == [nil |-> TRUE, AccessToken |-> "", RefreshToken |-> "", Expiry |-> 0]

\* no handler goroutine
NoHandler ==
  [phase |-> "none", attempt |-> 0, cbState |-> "", code |-> "",
   verifier |-> "", resp |-> NoResp, token |-> NilToken]

\* ------------------------------------------------------------ pure functions

generateCodeChallengeFixed(verifier) == "h1"

\* base64url(sha256(verifier)): one digest per verifier, distinct verifiers
\* have distinct digests
generateCodeChallenge(verifier) ==
  CASE verifier = "v1" -> "h1"
    [] verifier = "v2" -> "h2"
    [] OTHER           -> "h0"

exchangeCodeForTokenNoRefresh(resp, t) ==
  [nil |-> FALSE, AccessToken |-> resp.AccessToken,
   RefreshToken |-> "", Expiry |-> t + resp.ExpiresIn]

\* the token built from a 200 response of the code exchange, parsed at time t
exchangeCodeForToken(resp, t) ==
  [nil |-> FALSE, AccessToken |-> resp.AccessToken,
   RefreshToken |-> resp.RefreshToken, Expiry |-> t + resp.ExpiresIn]

refreshTokenDropsOld(oldToken, resp, t) ==
  [nil |-> FALSE, AccessToken |-> resp.AccessToken,
   RefreshToken |-> resp.RefreshToken, Expiry |-> t + resp.ExpiresIn]

\* the token built from a 200 response of the refresh, parsed at time t
refreshToken(oldToken, resp, t) ==
  [nil |-> FALSE, AccessToken |-> resp.AccessToken,
   RefreshToken |-> IF resp.RefreshToken = "" THEN oldToken.RefreshToken
                    ELSE resp.RefreshToken,
   Expiry |-> t + resp.ExpiresIn]

isTokenValidWideMargin(token, t) ==
  ~token.nil /\ token.Expiry > t + 2 * Margin

isTokenValidAtMargin(token, t) ==
  ~token.nil /\ token.Expiry >= t + Margin

\* token.Expiry.After(time.Now().Add(5 * time.Minute))
isTokenValid(token, t) ==
  ~token.nil /\ token.Expiry > t + Margin

callbackVerdictNoStateCheck(errMsg, st, code, curState) ==
  IF errMsg # "" THEN "server_error"
  ELSE IF code = "" THEN "missing_code"
  ELSE "exchange"

\* the checks completeAuthHandler makes on the query before the exchange
callbackVerdict(errMsg, st, code, curState) ==
  IF errMsg # "" THEN "server_error"
  ELSE IF st # curState THEN "state_mismatch"
  ELSE IF code = "" THEN "missing_code"
  ELSE "exchange"

\* ------------------------------------------------------------------- state
VARIABLES
  now,               \* wall clock
  pc,                \* the caller: "idle", "waiting" (in the select),
                     \* "shutdown" (in server.Shutdown after the timer),
                     \* "crashed" (Login panicked)
  cachedToken,       \* package variable cachedToken
  state,             \* package variable state
  codeVerifier,      \* package variable codeVerifier
  codeChallenge,     \* package variable codeChallenge
  registered,        \* "/" is registered on http.DefaultServeMux
  listener,          \* "none", "listening", "failed" (bind error), "closed"
  waitStart,         \* time at which the select's timer was armed
  handlers,          \* bag of the completeAuthHandler goroutines in flight
  ret,               \* what the last Login call returned
  call,              \* what the current / last Login call did
  cb,                \* what the listener of the current / last attempt saw
  attempts,          \* number of initPKCE runs so far
  client,            \* the Client made by NewClient
  request,           \* the last authenticated request of the Client
  pg                 \* the paginated listing in progress

authVars == <<now, pc, cachedToken, state, codeVerifier, codeChallenge,
              registered, listener, waitStart, handlers, ret, call, cb,
              attempts>>

vars == <<now, pc, cachedToken, state, codeVerifier, codeChallenge, registered,
          listener, waitStart, handlers, ret, call, cb, attempts, client,
          request, pg>>

NoRet == [kind |-> "none", AccessToken |-> "", RefreshToken |-> "", err |-> ""]

OkRet(token) ==
  [kind |-> "ok", AccessToken |-> token.AccessToken,
   RefreshToken |-> token.RefreshToken, err |-> ""]

ErrRet(e) == [kind |-> "err", AccessToken |-> "", RefreshToken |-> "", err |-> e]

NoCall ==
  [path |-> "none", refreshCalls |-> 0, refreshResp |-> NoResp,
   pkceGens |-> 0, listenerStarts |-> 0, exchangeCalls |-> 0]

NoUrl == [state |-> "", challenge |-> ""]

NoCb ==
  [served |-> 0, first |-> "none", url |-> NoUrl, exchanges |-> {},
   delivered |-> NoHandler]

\* no Client yet; `pending` is set while NewClient is inside GetAccessToken
NoClient == [made |-> FALSE, accessToken |-> "", pending |-> FALSE]

NoRequest == [sent |-> FALSE, bearer |-> "", current |-> ""]

NoPages ==
  [pc |-> "idle", op |-> "", limit |-> 0, offset |-> 0, all |-> << >>,
   err |-> FALSE, errMsg |-> "", served |-> << >>, offsets |-> << >>]

\* NewClient: the Client keeps the access token GetAccessToken returned, or
\* no Client is made when it returned an error
ClientAfterLogin(c, r) ==
  IF ~c.pending THEN c
  ELSE IF r.kind = "ok"
       THEN [made |-> TRUE, accessToken |-> r.AccessToken, pending |-> FALSE]
       ELSE [c EXCEPT !.pending = FALSE]

Init ==
  /\ now = 0
  /\ pc = "idle"
  /\ cachedToken = NilToken
  /\ state = ""
  /\ codeVerifier = ""
  /\ codeChallenge = ""
  /\ registered = FALSE
  /\ listener = "none"
  /\ waitStart = 0
  /\ handlers = EmptyBag
  /\ ret = NoRet
  /\ call = NoCall
  /\ cb = NoCb
  /\ attempts = 0
  /\ client = NoClient
  /\ request = NoRequest
  /\ pg = NoPages

\* ------------------------------------------------------------------- Login

\* Login, first branch: the cached token passes isTokenValid
LoginCached ==
  /\ pc = "idle"
  /\ ~cachedToken.nil /\ isTokenValid(cachedToken, now)
  /\ ret' = OkRet(cachedToken)
  /\ call' = [NoCall EXCEPT !.path = "cached"]
  /\ cb' = NoCb
  /\ client' = ClientAfterLogin(client, ret')
  /\ UNCHANGED <<now, pc, cachedToken, state, codeVerifier, codeChallenge,
                 registered, listener, waitStart, handlers, attempts,
                 request, pg>>

\* Login, second branch: the cached token is stale and the refresh succeeds
LoginRefreshed ==
  /\ pc = "idle"
  /\ ~cachedToken.nil /\ ~isTokenValid(cachedToken, now)
  /\ \E resp \in RefreshResps :
       LET newToken == refreshToken(cachedToken, resp, now) IN
       /\ cachedToken' = newToken
       /\ ret' = OkRet(newToken)
       /\ call' = [NoCall EXCEPT !.path = "refresh", !.refreshCalls = 1,
                                 !.refreshResp = resp]
  /\ cb' = NoCb
  /\ client' = ClientAfterLogin(client, ret')
  /\ UNCHANGED <<now, pc, state, codeVerifier, codeChallenge, registered,
                 listener, waitStart, handlers, attempts, request, pg>>

LoginInteractiveNoPanic ==
  /\ pc = "idle"
  /\ cachedToken.nil \/ ~isTokenValid(cachedToken, now)
  /\ \E s \in States, v \in Verifiers, bound \in BOOLEAN :
       /\ state' = s
       /\ codeVerifier' = v
       /\ codeChallenge' = generateCodeChallenge(v)
       /\ call' = [NoCall EXCEPT !.path = "interactive",
                                 !.refreshCalls = IF cachedToken.nil THEN 0 ELSE 1,
                                 !.pkceGens = 1, !.listenerStarts = 1]
       /\ ret' = NoRet
       /\ pc' = "waiting"
       /\ registered' = TRUE
       /\ listener' = IF bound THEN "listening" ELSE "failed"
       /\ waitStart' = now
       /\ cb' = [NoCb EXCEPT !.url =
                   [state |-> s, challenge |-> generateCodeChallenge(v)]]
  /\ attempts' = attempts + 1
  /\ UNCHANGED <<now, cachedToken, handlers, client, request, pg>>

\* Login, interactive part up to the select: reached with no cached token, or
\* with a stale one whose refresh failed.  initPKCE runs first; then
\* http.HandleFunc("/", ...) panics if "/" is already registered on the
\* default mux; otherwise the server goroutine is started (its bind may fail,
\* the error of ListenAndServe is dropped) and the caller blocks in the select.
LoginInteractive ==
  /\ pc = "idle"
  /\ cachedToken.nil \/ ~isTokenValid(cachedToken, now)
  /\ \E s \in States, v \in Verifiers, bound \in BOOLEAN :
       /\ state' = s
       /\ codeVerifier' = v
       /\ codeChallenge' = generateCodeChallenge(v)
       /\ call' = [NoCall EXCEPT !.path = "interactive",
                                 !.refreshCalls = IF cachedToken.nil THEN 0 ELSE 1,
                                 !.pkceGens = 1,
                                 !.listenerStarts = IF registered THEN 0 ELSE 1]
       /\ ret' = NoRet
       /\ IF registered
          THEN /\ pc' = "crashed"
               /\ cb' = NoCb
               /\ UNCHANGED <<registered, listener, waitStart>>
          ELSE /\ pc' = "waiting"
               /\ registered' = TRUE
               /\ listener' = IF bound THEN "listening" ELSE "failed"
               /\ waitStart' = now
               /\ cb' = [NoCb EXCEPT !.url =
                           [state |-> s,
                            challenge |-> generateCodeChallenge(v)]]
  /\ attempts' = attempts + 1
  /\ UNCHANGED <<now, cachedToken, handlers, client, request, pg>>

LoginReceiveNoShutdown ==
  \E h \in BagToSet(handlers) :
    /\ pc = "waiting"
    /\ BagIn(h, handlers)
    /\ h.phase = "sending"
    /\ cachedToken' = h.token
    /\ ret' = OkRet(h.token)
    /\ cb' = [cb EXCEPT !.delivered = h]
    /\ handlers' = handlers (-) SetToBag({h})
    /\ pc' = "idle"
    /\ client' = ClientAfterLogin(client, ret')
    /\ UNCHANGED <<now, state, codeVerifier, codeChallenge, registered,
                   listener, waitStart, call, attempts, request, pg>>

LoginReceiveNoStore ==
  \E h \in BagToSet(handlers) :
    /\ pc = "waiting"
    /\ BagIn(h, handlers)
    /\ h.phase = "sending"
    /\ ret' = OkRet(h.token)
    /\ cb' = [cb EXCEPT !.delivered = h]
    /\ handlers' = handlers (-) SetToBag({h})
    /\ listener' = IF listener = "listening" THEN "closed" ELSE listener
    /\ pc' = "idle"
    /\ client' = ClientAfterLogin(client, ret')
    /\ UNCHANGED <<now, cachedToken, state, codeVerifier, codeChallenge,
                   registered, waitStart, call, attempts, request, pg>>

\* Login, `case token = <-ch`: receive from the handler blocked in the send,
\* shut the server down (5 s grace: handlers still in flight are left
\* running), store the token and return its pair
LoginReceive ==
  \E h \in BagToSet(handlers) :
    /\ pc = "waiting"
    /\ BagIn(h, handlers)
    /\ h.phase = "sending"
    /\ cachedToken' = h.token
    /\ ret' = OkRet(h.token)
    /\ cb' = [cb EXCEPT !.delivered = h]
    /\ handlers' = handlers (-) SetToBag({h})
    /\ listener' = IF listener = "listening" THEN "closed" ELSE listener
    /\ pc' = "idle"
    /\ client' = ClientAfterLogin(client, ret')
    /\ UNCHANGED <<now, state, codeVerifier, codeChallenge, registered,
                   waitStart, call, attempts, request, pg>>

LoginTimerNoShutdown ==
  /\ pc = "waiting"
  /\ now >= waitStart + LoginTimeout
  /\ pc' = "shutdown"
  /\ UNCHANGED <<now, cachedToken, state, codeVerifier, codeChallenge,
                 registered, listener, waitStart, handlers, ret, call, cb,
                 attempts, client, request, pg>>

\* Login, `case <-time.After(5 * time.Minute)`: the timer has fired and the
\* select takes it; server.Shutdown(context.Background()) closes the listener
\* and then waits for the handlers in flight
LoginTimer ==
  /\ pc = "waiting"
  /\ now >= waitStart + LoginTimeout
  /\ listener' = IF listener = "listening" THEN "closed" ELSE listener
  /\ pc' = "shutdown"
  /\ UNCHANGED <<now, cachedToken, state, codeVerifier, codeChallenge,
                 registered, waitStart, handlers, ret, call, cb, attempts,
                 client, request, pg>>

\* Login, timeout branch: Shutdown returns once no handler is in flight and
\* Login returns the timeout error
LoginTimeoutReturn ==
  /\ pc = "shutdown"
  /\ handlers = EmptyBag
  /\ ret' = ErrRet("timeout")
  /\ pc' = "idle"
  /\ client' = ClientAfterLogin(client, ret')
  /\ UNCHANGED <<now, cachedToken, state, codeVerifier, codeChallenge,
                 registered, listener, waitStart, handlers, call, cb,
                 attempts, request, pg>>

\* ------------------------------------------------------ completeAuthHandler
\* a handler goroutine is in flight from the accepted request until it returns

NoteFirst(c, outcome) ==
  IF c.first = "none" THEN [c EXCEPT !.first = outcome] ELSE c

\* a request reaches the listener: completeAuthHandler checks the query and
\* either answers with an HTTP error and returns, or posts the code exchange
Callback(errMsg, st, code) ==
  /\ pc = "waiting"
  /\ listener = "listening"
  /\ cb.served < MaxCallbacks
  /\ LET verdict == callbackVerdict(errMsg, st, code, state) IN
     IF verdict = "exchange"
     THEN /\ BagCardinality(handlers) < MaxHandlers
          /\ handlers' = handlers (+) SetToBag({
                    [phase |-> "exchanging", attempt |-> attempts,
                     cbState |-> st, code |-> code,
                     verifier |-> codeVerifier, resp |-> NoResp,
                     token |-> NilToken]})
          /\ cb' = [cb EXCEPT !.served = @ + 1,
                              !.exchanges = @ \cup
                                {[cbState |-> st, code |-> code,
                                  attemptState |-> state,
                                  verifier |-> codeVerifier]}]
          /\ call' = [call EXCEPT !.exchangeCalls = @ + 1]
     ELSE /\ cb' = [NoteFirst(cb, verdict) EXCEPT !.served = @ + 1]
          /\ UNCHANGED <<handlers, call>>
  /\ UNCHANGED <<now, pc, cachedToken, state, codeVerifier, codeChallenge,
                 registered, listener, waitStart, ret, attempts, client,
                 request, pg>>

\* the token endpoint answers the exchange with 200 and a decodable body: the
\* handler builds the token, writes the success page and blocks in `ch <- token`
ExchangeOK ==
  \E h \in BagToSet(handlers) :
    /\ pc # "crashed"
    /\ BagIn(h, handlers)
    /\ h.phase = "exchanging"
    /\ \E resp \in ExchangeResps :
         /\ handlers' = (handlers (-) SetToBag({h})) (+) SetToBag({
                           [h EXCEPT !.phase = "sending", !.resp = resp,
                                     !.token = exchangeCodeForToken(resp, now)]})
         /\ cb' = NoteFirst(cb, "exchanged")
    /\ UNCHANGED <<now, pc, cachedToken, state, codeVerifier, codeChallenge,
                   registered, listener, waitStart, ret, call, attempts,
                   client, request, pg>>

\* the exchange fails (transport error, non-200 status, undecodable body): the
\* handler answers 500 and returns
ExchangeFail ==
  \E h \in BagToSet(handlers) :
    /\ pc # "crashed"
    /\ BagIn(h, handlers)
    /\ h.phase = "exchanging"
    /\ handlers' = handlers (-) SetToBag({h})
    /\ cb' = NoteFirst(cb, "exchange_failed")
    /\ UNCHANGED <<now, pc, cachedToken, state, codeVerifier, codeChallenge,
                   registered, listener, waitStart, ret, call, attempts,
                   client, request, pg>>

\* ------------------------------------------------------------------- clock
Tick ==
  /\ pc # "crashed"
  /\ now < MaxTime
  /\ now' = now + 1
  /\ UNCHANGED <<pc, cachedToken, state, codeVerifier, codeChallenge,
                 registered, listener, waitStart, handlers, ret, call, cb,
                 attempts, client, request, pg>>

Next ==
  \/ LoginCached
  \/ LoginRefreshed
  \/ LoginInteractive
  \/ LoginReceive
  \/ LoginTimer
  \/ LoginTimeoutReturn
  \/ \E errMsg \in CbErrors, st \in CbStates, code \in CbCodes :
       Callback(errMsg, st, code)
  \/ ExchangeOK
  \/ ExchangeFail
  \/ Tick

Spec == Init /\ [][Next]_vars

\* The Go scheduler runs every goroutine that can take a step: the select
\* takes a ready case, Shutdown returns once the handlers are gone, a posted
\* exchange is answered, and time passes.
FairSpec ==
  /\ Spec
  /\ WF_vars(LoginReceive)
  /\ WF_vars(LoginTimer)
  /\ WF_vars(LoginTimeoutReturn)
  /\ WF_vars(ExchangeOK \/ ExchangeFail)
  /\ WF_vars(Tick)

\* ------------------------------------------------------------- API client

\* NewClient is called: it calls GetAccessToken, that is Login, and builds the
\* Client from what Login returns (ClientAfterLogin)
NewClient ==
  /\ pc = "idle"
  /\ ~client.made /\ ~client.pending
  /\ client' = [client EXCEPT !.pending = TRUE]
  /\ UNCHANGED <<authVars, request, pg>>

\* Client.makeRequest: the Authorization header is "Bearer " + c.accessToken
makeRequest ==
  /\ pc = "idle"
  /\ client.made /\ ~client.pending
  /\ request' = [sent |-> TRUE, bearer |-> client.accessToken,
                 current |-> cachedToken.AccessToken]
  /\ UNCHANGED <<authVars, client, pg>>

NextClient ==
  \/ Next
  \/ NewClient
  \/ makeRequest

\* the login together with a Client made and used by the same caller
SpecClient == Init /\ [][NextClient]_vars

\* ------------------------------------------------------ paginated listings

Listings == {"GetAllPlaylists", "GetLikedSongs", "GetPlaylistTracks"}

\* limit := 50 in GetAllPlaylists and GetLikedSongs, 100 in GetPlaylistTracks
limitOf(op) == IF op = "GetPlaylistTracks" THEN 2 * PageLimit ELSE PageLimit

\* the items the server holds at positions offset+1 .. offset+n
pageItems(offset, n) == [k \in 1 .. n |-> offset + k]

\* a listing is called on the Client: limit and offset are set, nothing fetched
ListStart(op) ==
  /\ client.made
  /\ pg.pc \in {"idle", "done"}
  /\ pg' = [NoPages EXCEPT !.pc = "loop", !.op = op, !.limit = limitOf(op)]
  /\ UNCHANGED <<authVars, client, request>>

ListPageNextOnly ==
  /\ pg.pc = "loop"
  /\ Len(pg.offsets) < MaxPages
  /\ \E n \in 0 .. pg.limit, next \in BOOLEAN :
       pg' = [pg EXCEPT
                !.all = @ \o pageItems(pg.offset, n),
                !.served = Append(@, [n |-> n, next |-> next]),
                !.offsets = Append(@, pg.offset),
                !.pc = IF ~next THEN "done" ELSE "loop",
                !.offset = IF ~next THEN @ ELSE @ + pg.limit]
  /\ request' = [sent |-> TRUE, bearer |-> client.accessToken,
                 current |-> cachedToken.AccessToken]
  /\ UNCHANGED <<authVars, client>>

\* one round of the loop whose request and parse succeed: the page's items are
\* appended; the loop ends if the page has no next link or is short
ListPage ==
  /\ pg.pc = "loop"
  /\ Len(pg.offsets) < MaxPages
  /\ \E n \in 0 .. pg.limit, next \in BOOLEAN :
       LET last == ~next \/ n < pg.limit IN
       pg' = [pg EXCEPT
                !.all = @ \o pageItems(pg.offset, n),
                !.served = Append(@, [n |-> n, next |-> next]),
                !.offsets = Append(@, pg.offset),
                !.pc = IF last THEN "done" ELSE "loop",
                !.offset = IF last THEN @ ELSE @ + pg.limit]
  /\ request' = [sent |-> TRUE, bearer |-> client.accessToken,
                 current |-> cachedToken.AccessToken]
  /\ UNCHANGED <<authVars, client>>

\* one round of the loop whose request or parse fails: nil and the error
ListPageFail ==
  /\ pg.pc = "loop"
  /\ Len(pg.offsets) < MaxPages
  /\ \E e \in {"failed to get", "failed to parse"} :
       pg' = [pg EXCEPT !.all = << >>, !.err = TRUE, !.errMsg = e,
                        !.pc = "done", !.offsets = Append(@, pg.offset)]
  /\ request' = [sent |-> TRUE, bearer |-> client.accessToken,
                 current |-> cachedToken.AccessToken]
  /\ UNCHANGED <<authVars, client>>

\* a process whose NewClient has returned a Client after an interactive login
InitPages ==
  \E resp \in ExchangeResps :
    /\ now = 0
    /\ pc = "idle"
    /\ cachedToken = exchangeCodeForToken(resp, 0)
    /\ state = "s1"
    /\ codeVerifier = "v1"
    /\ codeChallenge = generateCodeChallenge("v1")
    /\ registered = TRUE
    /\ listener = "closed"
    /\ waitStart = 0
    /\ handlers = EmptyBag
    /\ ret = OkRet(cachedToken)
    /\ call = [NoCall EXCEPT !.path = "interactive", !.pkceGens = 1,
                             !.listenerStarts = 1, !.exchangeCalls = 1]
    /\ cb = [served |-> 1, first |-> "exchanged",
             url |-> [state |-> "s1", challenge |-> codeChallenge],
             exchanges |-> {[cbState |-> "s1", code |-> "c1",
                             attemptState |-> "s1", verifier |-> "v1"]},
             delivered |-> [phase |-> "sending", attempt |-> 1,
                            cbState |-> "s1", code |-> "c1", verifier |-> "v1",
                            resp |-> resp, token |-> cachedToken]]
    /\ attempts = 1
    /\ client = [made |-> TRUE, accessToken |-> resp.AccessToken,
                 pending |-> FALSE]
    /\ request = NoRequest
    /\ pg = NoPages

NextPages ==
  \/ \E op \in Listings : ListStart(op)
  \/ ListPage
  \/ ListPageFail

\* the listings of a Client against a server that answers each page request
SpecPages == InitPages /\ [][NextPages]_vars

\* ------------------------------------------------------------------ claims

\* a Login call is made in this step (it returns, blocks or panics within it)
LoginCalled ==
  /\ pc = "idle"
  /\ <<call, ret, cachedToken, pc>>' # <<call, ret, cachedToken, pc>>

PKCE == <<state, codeVerifier, codeChallenge>>

\* C1: a Login call made while the cached token expires strictly more than
\* 5 minutes from now returns that token's pair with no error, makes no
\* refresh and no exchange call, starts no listener, generates no PKCE
\* attempt and leaves the cache unchanged.
C1_FreshTokenReturnedUntouched ==
  [][ (LoginCalled /\ ~cachedToken.nil /\ cachedToken.Expiry > now + Margin)
      => /\ ret' = [kind |-> "ok", AccessToken |-> cachedToken.AccessToken,
                    RefreshToken |-> cachedToken.RefreshToken, err |-> ""]
         /\ cachedToken' = cachedToken
         /\ call'.refreshCalls = 0 /\ call'.exchangeCalls = 0
         /\ call'.listenerStarts = 0 /\ call'.pkceGens = 0
         /\ listener' = listener /\ PKCE' = PKCE /\ pc' = "idle" ]_vars

C1_Witness ==
  /\ call.path = "cached" /\ ret.kind = "ok"
  /\ ~cachedToken.nil /\ cachedToken.Expiry > now + Margin
  /\ ret.AccessToken = cachedToken.AccessToken

\* C2: a Login call made while the cached token expires at or before
\* now + 5 minutes makes exactly one refresh call; if the refresh succeeds the
\* cache holds the new token, Login returns its pair, and nothing of the
\* interactive login (PKCE generation, listener, code exchange) happens.
C2_StaleTokenRefreshedOnce ==
  [][ (LoginCalled /\ ~cachedToken.nil /\ cachedToken.Expiry <= now + Margin)
      => /\ call'.refreshCalls = 1
         /\ call'.path = "refresh" =>
              /\ ~cachedToken'.nil
              /\ cachedToken'.AccessToken = call'.refreshResp.AccessToken
              /\ cachedToken'.Expiry = now + call'.refreshResp.ExpiresIn
              /\ ret' = [kind |-> "ok", AccessToken |-> cachedToken'.AccessToken,
                         RefreshToken |-> cachedToken'.RefreshToken, err |-> ""]
              /\ call'.pkceGens = 0 /\ call'.listenerStarts = 0
              /\ call'.exchangeCalls = 0
              /\ listener' = listener /\ PKCE' = PKCE /\ pc' = "idle" ]_vars

C2_Witness ==
  /\ call.path = "refresh" /\ call.refreshCalls = 1 /\ ret.kind = "ok"
  /\ cachedToken.AccessToken = "a3" /\ ret.AccessToken = "a3"

\* C3: after a successful refresh the cached and returned refresh token is the
\* response's when that is non-empty and the refreshed token's otherwise; so a
\* refresh of a token with a non-empty refresh token never leaves the cache
\* with an empty one.
C3_RefreshKeepsRefreshToken ==
  [][ (LoginCalled /\ call'.path = "refresh")
      => /\ cachedToken'.RefreshToken =
              IF call'.refreshResp.RefreshToken = ""
              THEN cachedToken.RefreshToken
              ELSE call'.refreshResp.RefreshToken
         /\ ret'.RefreshToken = cachedToken'.RefreshToken
         /\ cachedToken.RefreshToken # "" => cachedToken'.RefreshToken # "" ]_vars

C3_Witness ==
  /\ call.path = "refresh" /\ call.refreshResp.RefreshToken = ""
  /\ cachedToken.RefreshToken = "r1" /\ ret.RefreshToken = "r1"

\* C4: a Login call whose cached token is stale and whose refresh fails goes
\* on into an interactive login (new PKCE attempt, listener started, waiting
\* for the callback), also when an earlier interactive login of the process
\* registered the handler.
C4_RefreshFailureFallsThrough ==
  (call.path = "interactive" /\ call.refreshCalls = 1)
    => /\ pc # "crashed"
       /\ call.pkceGens = 1
       /\ call.listenerStarts = 1

\* C5: a callback carrying an `error` parameter does not reach the token
\* endpoint, and the waiting Login call returns a failure describing the
\* reported error: a Login call whose listener served just that callback
\* returns "access_denied", and no exchange was posted.
C5_ErrorCallbackFailsLogin ==
  (call.path = "interactive" /\ cb.served = 1 /\ cb.first = "server_error")
    => /\ call.exchangeCalls = 0
       /\ ret.kind # "none" => (ret.kind = "err" /\ ret.err = "access_denied")

\* C6: a code exchange is posted only for a callback whose `state` equals the
\* state generated for the attempt in progress; a callback with another state
\* or none never reaches the exchange.
C6_ExchangeOnlyForMatchingState ==
  /\ \A e \in cb.exchanges :
       e.cbState = e.attemptState /\ e.cbState # "" /\ e.code # ""
  /\ pc \in {"waiting", "shutdown"} =>
       /\ \A e \in cb.exchanges : e.attemptState = state
       /\ \A h \in BagToSet(handlers) : h.cbState = state
       /\ call.exchangeCalls > 0 => cb.exchanges # {}

C6_Witness ==
  /\ cb.first = "state_mismatch"
  /\ cb.exchanges # {}
  /\ \E h \in BagToSet(handlers) : h.phase = "exchanging"

\* C7: when a callback is rejected for a state mismatch or a missing code, a
\* failure result reaches the waiting Login call, which returns that failure
\* instead of the timeout: a Login call whose listener served just that
\* callback returns the state-mismatch or missing-code failure.
C7_RejectedCallbackFailsLogin ==
  (call.path = "interactive" /\ cb.served = 1
     /\ cb.first \in {"state_mismatch", "missing_code"})
    => (ret.kind # "none" => (ret.kind = "err" /\ ret.err = cb.first))

C9_InteractiveLoginReturnsExchangedPair ==
  /\ (call.path = "interactive" /\ ret.kind = "ok") =>
       /\ cb.delivered.cbState = state /\ cb.delivered.code # ""
       /\ cb.delivered.resp \in ExchangeResps
       /\ ret.AccessToken = cb.delivered.resp.AccessToken
       /\ ret.RefreshToken = cb.delivered.resp.RefreshToken
       /\ ret.err = ""
       /\ ~cachedToken.nil
       /\ cachedToken.AccessToken = cb.delivered.resp.AccessToken
       /\ cachedToken.RefreshToken = cb.delivered.resp.RefreshToken
  /\ (call.path = "interactive" /\ cb.served = 1 /\ cb.first = "exchanged"
        /\ ret.kind # "none") => ret.kind = "ok"

C9_Witness ==
  /\ call.path = "interactive" /\ ret.kind = "ok"
  /\ cb.delivered.resp.RefreshToken = "r1"
  /\ ret.RefreshToken = "r1" /\ cachedToken.RefreshToken = "r1"

\* C10: when a valid callback's code exchange fails, the waiting Login call
\* returns that exchange error: a Login call whose listener served just that
\* callback returns "exchange_failed".
C10_ExchangeFailureFailsLogin ==
  (call.path = "interactive" /\ cb.served = 1 /\ cb.first = "exchange_failed")
    => (ret.kind # "none" => (ret.kind = "err" /\ ret.err = "exchange_failed"))

\* C11: whenever no Login call is in progress, no callback listener is
\* accepting requests, whichever way the last call ended.
C11_NoListenerOutlivesLogin ==
  pc \in {"idle", "crashed"} => listener # "listening"

C11_Witness ==
  /\ pc = "idle" /\ call.path = "interactive" /\ ret.kind = "ok"
  /\ listener = "closed"
  /\ handlers # EmptyBag

\* C12: every authenticated request of a Client carries the access token the
\* cache holds, hence the one Login returns, at the time of the request, also
\* after the cached token was refreshed or replaced.
C12_RequestCarriesCurrentToken ==
  request.sent => request.bearer = request.current

\* C13: within one login attempt at most one callback leads to a code
\* exchange; a further callback of the attempt, even a valid one, posts no
\* second exchange.
C13_AtMostOneExchangePerAttempt ==
  call.path = "interactive" => call.exchangeCalls <= 1

\* a handler goroutine is blocked in `ch <- token`
HandlerBlocked ==
  \E h \in BagToSet(handlers) : h.phase = "sending"

\* C14: a handler that reaches the send on the hand-off channel never stays
\* blocked there forever, whether the timer fired first or Login already
\* received another result.
C14_NoHandlerBlockedForever ==
  HandlerBlocked ~> ~HandlerBlocked

\* C15: every token Login receives from the hand-off channel comes from a
\* handler started during that same login attempt, which checked the callback
\* against that attempt's state and exchanged with that attempt's verifier.
C15_TokenFromOwnAttempt ==
  (call.path = "interactive" /\ ret.kind = "ok") =>
    /\ cb.delivered.phase = "sending"
    /\ cb.delivered.attempt = attempts
    /\ cb.delivered.cbState = state
    /\ cb.delivered.verifier = codeVerifier

C15_Witness ==
  /\ call.path = "interactive" /\ ret.kind = "ok"
  /\ cb.delivered.attempt = attempts /\ attempts = 1
  /\ HandlerBlocked

\* the S256 challenge the authorization server derives from a verifier
S256 == [v \in Verifiers |-> IF v = "v1" THEN "h1" ELSE "h2"]

\* C16: every interactive login generates a PKCE attempt; from the first
\* generation on the stored challenge is the S256 challenge of the stored
\* verifier; and every code exchange sends the verifier whose challenge was
\* put in the authorization URL of the attempt whose state the callback
\* matched.
C16_ChallengeMatchesVerifier ==
  /\ call.path = "interactive" => (call.pkceGens = 1 /\ attempts > 0)
  /\ attempts > 0 =>
       /\ state \in States /\ codeVerifier \in Verifiers
       /\ codeChallenge = S256[codeVerifier]
  /\ \A e \in cb.exchanges :
       /\ e.cbState = cb.url.state
       /\ e.verifier \in Verifiers
       /\ S256[e.verifier] = cb.url.challenge

C16_Witness ==
  /\ attempts = 1 /\ codeVerifier = "v2" /\ codeChallenge = "h2"
  /\ \E e \in cb.exchanges : e.verifier = "v2" /\ cb.url.challenge = "h2"

RECURSIVE pagesConcat(_, _, _)
\* the items of the first i pages served, fetched at the offsets asked
pagesConcat(served, offsets, i) ==
  IF i = 0 THEN << >>
  ELSE pagesConcat(served, offsets, i - 1)
         \o [k \in 1 .. served[i].n |-> offsets[i] + k]

\* C17 as stated: a listing that returns a list has fetched pages up to the
\* first page without a `next` link, so the last page it fetched has none.
C17_StopsOnlyWithoutNext ==
  (pg.pc = "done" /\ ~pg.err) => ~pg.served[Len(pg.served)].next

\* C17 as amended: a listing that returns a list returns the in-order
\* concatenation of the pages up to and including the first page that has no
\* `next` link or holds fewer items than the limit, the offset advancing by
\* the limit between requests; a listing that fails returns no list.
C17_ConcatenatesUntilLastPage ==
  /\ (pg.pc = "done" /\ ~pg.err) =>
       LET np == Len(pg.served) IN
       /\ np >= 1 /\ Len(pg.offsets) = np
       /\ \A i \in 1 .. np : pg.offsets[i] = (i - 1) * pg.limit
       /\ \A i \in 1 .. np - 1 :
            pg.served[i].next /\ pg.served[i].n = pg.limit
       /\ ~pg.served[np].next \/ pg.served[np].n < pg.limit
       /\ pg.all = pagesConcat(pg.served, pg.offsets, np)
  /\ (pg.pc = "done" /\ pg.err) => pg.all = << >>
  /\ pg.pc # "idle" =>
       pg.limit = (IF pg.op = "GetPlaylistTracks" THEN 2 ELSE 1) * PageLimit

C17_Witness ==
  /\ pg.pc = "done" /\ ~pg.err
  /\ Len(pg.served) = 2
  /\ pg.served[2].next /\ pg.served[2].n < pg.limit /\ pg.served[2].n > 0
  /\ Len(pg.all) = pg.limit + pg.served[2].n

\* C18: a Login call whose timer has fired returns, whatever the handlers in
\* flight are doing.
C18_LoginReturnsAfterTimeout == (pc = "shutdown") ~> (pc = "idle")

\* C19: a Login call that starts an interactive login after an earlier one in
\* the same process starts a fresh listener and handler and does not crash.
C19_SecondInteractiveLoginStarts ==
  (call.path = "interactive" /\ attempts >= 2)
    => (pc # "crashed" /\ call.listenerStarts = 1)

\* C20: whenever Login has returned a pair, the cache holds a token with that
\* pair; the cache changes only in the step in which a Login call returns a
\* pair after a refresh or an interactive login, and it never becomes empty;
\* so no step of a call that returns an error changes the cache.
C20_CacheWrittenOnlyOnSuccess ==
  /\ [](ret.kind = "ok" =>
          /\ ~cachedToken.nil
          /\ ret.AccessToken = cachedToken.AccessToken
          /\ ret.RefreshToken = cachedToken.RefreshToken)
  /\ [][ cachedToken' # cachedToken =>
           /\ ret'.kind = "ok" /\ pc' = "idle"
           /\ call'.path \in {"refresh", "interactive"}
           /\ ~cachedToken'.nil ]_vars
  /\ [][ ret'.kind = "err" => cachedToken' = cachedToken ]_vars

C20_Witness ==
  /\ pc = "idle" /\ ret.kind = "ok" /\ call.path = "refresh"
  /\ cachedToken.AccessToken = "a3" /\ ret.AccessToken = "a3"
  /\ attempts = 1 /\ handlers = EmptyBag

====
